---- MODULE Spec2Model ----
(***************************************************************************)
(* Model of server.js: an express application with a session middleware    *)
(* (express-session, memory store, resave: false, saveUninitialized:       *)
(* false), two mongoose collections (User, Image) and eight routes.        *)
(*                                                                         *)
(* Every request is a small process.  Its steps are the synchronous        *)
(* segments of the middleware chain and of the route handler; the step     *)
(* boundaries are the places where the code waits for a callback or an     *)
(* await (session load, store query, upstream fetch, body parse).          *)
(* Requests interleave at these boundaries only, as on the node event      *)
(* loop.                                                                   *)
(***************************************************************************)
EXTENDS Integers, Sequences, FiniteSets, TLC

\* ---------------------------------------------------------------- bounds
MaxInFlight == 2   \* requests in flight at the same time
MaxSid      == 2   \* session ids the session store ever issues
MaxImages   == 3   \* Image documents ever inserted
MaxClock    == 2   \* values of Date.now() beyond the first
MaxRequests == 5   \* requests the server ever receives
MaxLifeRequests == 4   \* the same, in the runs that start and stop the process

\* ------------------------------------------------------------ JS values
Undefined == "undefined"
Null      == "null"

\* a test for null only, where the handlers test !v
IsNull(v) == v = Null

\* !v for the string-or-undefined values the handlers test
Falsy(v) == v \in {Undefined, Null, ""}

Slots == 1..MaxInFlight
Sids  == 1..MaxSid

\* image URLs the upstream provider answers with / a form may carry
Urls == {"u1", "u2"}

\* req.body.username as typed: a sequence of characters
RawUsernames == { <<>>, <<" ">>, <<"a">>, <<" ", "a", " ">>, <<"b">> }

\* req.body.imageUrl: absent, empty or a URL
FormUrls == {Undefined, ""} \cup Urls

Routes == {"GET /", "GET /login", "POST /login", "POST /logout",
           "GET /home", "GET /random", "POST /save", "GET /saved"}

\* the routes registered with requireLogin
Protected == {"GET /home", "GET /random", "POST /save", "GET /saved"}

\* --------------------------------------------------------------- state
VARIABLES
    users,      \* User collection: sequence of documents, _id = position
    images,     \* Image collection: sequence of documents in insert order
    sessions,   \* the memory session store: sid -> session data
    nextSid,    \* the next session id the store has not issued yet
    reqs,       \* the requests in flight, by slot
    last,       \* the most recent response sent
    now,        \* Date.now()
    nreq,       \* requests received so far
    destroyed,  \* sids whose POST /logout has completed and that no
                \* login has written since the logout ran (history)
    shown,      \* sid -> URL the latest GET /random that found one answered,
                \* since the session's login (history)
    proc        \* the process: listener, store connection, command line, exit

vars == <<users, images, sessions, nextSid, reqs, last, now, nreq, destroyed,
          shown, proc>>

\* ------------------------------------------------------------- sessions
NoUser == [id |-> 0, username |-> <<>>]

\* a session generated by the middleware, before any handler writes to it
NewSession == [user |-> NoUser, currentImage |-> Undefined]

\* ------------------------------------------------------------ responses
Redirect(to) ==
    [kind |-> "redirect", target |-> to, currentImage |-> Undefined,
     error |-> Undefined, images |-> <<>>]

Render(view, img, err, imgs) ==
    [kind |-> "render", target |-> view, currentImage |-> img,
     error |-> err, images |-> imgs]

NoResponse ==
    [kind |-> "none", target |-> "", currentImage |-> Undefined,
     error |-> Undefined, images |-> <<>>]

\* ------------------------------------------------------------- requests
NoBody == [hasUsername |-> FALSE, username |-> <<>>, imageUrl |-> Undefined]

NoDoc == [user |-> 0, imageUrl |-> Undefined, savedAt |-> 0]

Idle ==
    [pc |-> "idle", route |-> "", cookie |-> 0, sid |-> 0, body |-> NoBody,
     sess |-> NewSession, orig |-> NewSession, afterLogout |-> FALSE,
     username |-> <<>>, doc |-> NoDoc]

NoLast ==
    [route |-> "", sid |-> 0, body |-> NoBody, user |-> NoUser,
     afterLogout |-> FALSE, resp |-> NoResponse]

InFlight(route) == {s \in Slots : reqs[s].pc # "idle" /\ reqs[s].route = route}


\* ------------------------------------------------------- pure functions
RECURSIVE TrimStart(_)
TrimStart(str) ==
    IF str # <<>> /\ Head(str) = " " THEN TrimStart(Tail(str)) ELSE str

RECURSIVE TrimEnd(_)
TrimEnd(str) ==
    IF str # <<>> /\ str[Len(str)] = " "
    THEN TrimEnd(SubSeq(str, 1, Len(str) - 1))
    ELSE str

\* a username taken as typed
NoTrim(str) == str

\* String.prototype.trim
Trim(str) == TrimEnd(TrimStart(str))

\* (req.body.username || "").trim()
LoginUsername(body) ==
    Trim(IF body.hasUsername THEN body.username ELSE <<>>)

\* a gate that lets every request through
requireNothing(sess) == TRUE

\* requireLogin: TRUE when next() is called, FALSE when it redirects
requireLogin(sess) == sess.user # NoUser

\* req.body.imageUrl || req.session.currentImage
ResolveImageUrl(formUrl, sess) ==
    IF Falsy(formUrl) THEN sess.currentImage ELSE formUrl

\* req.session.currentImage || null
HomeImage(sess) ==
    IF Falsy(sess.currentImage) THEN Null ELSE sess.currentImage

\* User.findOne({ username }): the matching documents
FindUser(username) ==
    {i \in 1..Len(users) : users[i].username = username}

\* a User collection without the unique index
NoUniqueIndex(username) == FALSE

\* the unique index on User.username rejects a second document
DuplicateKey(username) == FindUser(username) # {}

\* a query without the user filter
FindAllImages(userId) == 1..Len(images)

\* Image.find({ user: id }): the positions of the matching documents
FindImages(userId) ==
    {i \in 1..Len(images) : images[i].user = userId}

\* the comparison of an ascending sort
SavedAtAscending(a, b) == a.savedAt <= b.savedAt

\* the comparison .sort({ savedAt: -1 }) orders by: a may precede b
SavedAtOrder(a, b) == a.savedAt >= b.savedAt

\* every order .sort({ savedAt: -1 }) may return the documents in
\* (documents with equal savedAt come in an order the store chooses)
SortBySavedAt(found) ==
    LET n == Cardinality(found)
        perms == {f \in [1..n -> found] : \A i, j \in 1..n : i # j => f[i] # f[j]}
    IN  {[i \in 1..n |-> images[f[i]]] : f \in
            {g \in perms : \A i, j \in 1..n :
                i < j => SavedAtOrder(images[g[i]], images[g[j]])}}

\* express-session at the end of a response (resave: false,
\* saveUninitialized: false): the session is written back only when its
\* data differs from what the request loaded or generated
ShouldSave(r, sess) == sess # r.orig

\* the sid the store writes to: the loaded one, or a newly issued one
SaveSid(r) == IF r.sid = 0 THEN nextSid ELSE r.sid

\* res.end for request r in slot s: write the session back if needed,
\* send the response
Finish(s, r, sess, resp) ==
    /\ sessions' = IF ShouldSave(r, sess)
                   THEN (SaveSid(r) :> sess) @@ sessions
                   ELSE sessions
    /\ nextSid' = IF ShouldSave(r, sess) /\ r.sid = 0
                  THEN nextSid + 1 ELSE nextSid
    /\ reqs' = [reqs EXCEPT ![s] = Idle]
    /\ last' = [route |-> r.route, sid |-> r.cookie, body |-> r.body,
                user |-> r.sess.user, afterLogout |-> r.afterLogout,
                resp |-> resp]

\* ------------------------------------------------------------- process
\* the process while server.js is being loaded
\*   phase:    "load", "up" (the event loop runs), "exited"
\*   hasUri:   process.env.MONGO_CONNECTION_STRING is set
\*   listener: "none", "binding", "listening", "draining" (server.close was
\*             called, connections are still open), "closed"
\*   db:       "none", "connecting", "open", "closeWhenOpen" (close was
\*             called while connecting), "closing", "closed", "failed"
\*   cli:      "off", "prompt", "closed"
\*   exitCode: the argument of process.exit, -1 while the process lives
\*   line/out: the last line read and what the handler logged for it
\*   budget:   requests the server will receive
\*             out.prompt: rl.prompt() was the last thing done to the prompt
NoOutput == [msg |-> "none", arg |-> <<>>, prompt |-> FALSE]

Loading(hasUri) ==
    [phase |-> "load", hasUri |-> hasUri, listener |-> "none", db |-> "none",
     cli |-> "off", exitCode |-> -1, line |-> <<>>, out |-> NoOutput,
     budget |-> MaxLifeRequests]

\* the process once it listens, is connected and prompts
Serving ==
    [phase |-> "up", hasUri |-> TRUE, listener |-> "listening", db |-> "open",
     cli |-> "prompt", exitCode |-> -1, line |-> <<>>,
     out |-> [NoOutput EXCEPT !.prompt = TRUE], budget |-> MaxRequests]

\* the event loop runs
Alive == proc.phase = "up"

\* the listener accepts connections
Accepting == Alive /\ proc.listener = "listening"

\* a store operation can return (mongoose holds it back until connected)
StoreOpen == proc.db = "open"

\* ------------------------------------------------------------- initial
\* empty collections, empty session store, no request
Fresh ==
    /\ users = <<>>
    /\ images = <<>>
    /\ sessions = <<>>
    /\ nextSid = 1
    /\ reqs = [s \in Slots |-> Idle]
    /\ last = NoLast
    /\ now = 0
    /\ nreq = 0
    /\ destroyed = {}
    /\ shown = [sid \in Sids |-> Undefined]

\* a serving process
Init == Fresh /\ proc = Serving

\* a process about to load server.js
LifeInit == Fresh /\ proc \in {Loading(hasUri) : hasUri \in BOOLEAN}

\* ------------------------------------------------- request arrives
\* the bodies a client sends with each route
Bodies(route) ==
    IF route = "POST /login"
    THEN {NoBody} \cup {[NoBody EXCEPT !.hasUsername = TRUE, !.username = u] :
                            u \in RawUsernames}
    ELSE IF route = "POST /save"
    THEN {[NoBody EXCEPT !.imageUrl = f] : f \in FormUrls}
    ELSE {NoBody}

\* the cookies a client can send: none, or a sid the store has issued
Cookies == 0..(nextSid - 1)

\* the session middleware: store.get(cookie sid), then inflate the stored
\* session into req.session or generate a new one.  A generated session
\* gets its sid when it is first saved.
Request(route, cookie, body) ==
    LET found == cookie \in DOMAIN sessions
        sess  == IF found THEN sessions[cookie] ELSE NewSession
    IN  [Idle EXCEPT !.pc = "loaded", !.route = route, !.cookie = cookie,
                     !.sid = IF found THEN cookie ELSE 0,
                     !.body = body, !.sess = sess, !.orig = sess,
                     !.afterLogout = cookie \in destroyed]

\* a new request is taken by the first free slot
Accept(s) ==
    /\ reqs[s].pc = "idle"
    /\ \A t \in Slots : t < s => reqs[t].pc # "idle"
    /\ Accepting
    /\ nreq < proc.budget
    /\ nreq' = nreq + 1
    /\ UNCHANGED proc

\* ----------------------------------------------------------- routes
\* router.get("/")
Root(s) ==
    /\ Accept(s)
    /\ \E cookie \in Cookies :
        LET r == Request("GET /", cookie, NoBody) IN
        Finish(s, r, r.sess, Redirect("/login"))
    /\ UNCHANGED <<users, images, now, destroyed, shown>>

\* router.get("/login")
GetLogin(s) ==
    /\ Accept(s)
    /\ \E cookie \in Cookies :
        LET r == Request("GET /login", cookie, NoBody) IN
        Finish(s, r, r.sess, Render("login", Undefined, Null, <<>>))
    /\ UNCHANGED <<users, images, now, destroyed, shown>>

\* router.post("/login"), up to the first await
PostLogin(s) ==
    /\ Accept(s)
    /\ \E cookie \in Cookies, body \in Bodies("POST /login") :
        LET r == Request("POST /login", cookie, body)
            username == LoginUsername(body)
        IN
        IF username = <<>>
        THEN Finish(s, r, r.sess,
                    Render("login", Undefined, "Username is required.", <<>>))
        ELSE /\ r.sid = 0 =>
                   nextSid + Cardinality({t \in InFlight("POST /login") :
                                             reqs[t].sid = 0}) <= MaxSid
             /\ reqs' = [reqs EXCEPT ![s] =
                            [r EXCEPT !.pc = "findOne", !.username = username]]
             /\ UNCHANGED <<sessions, nextSid, last>>
    /\ UNCHANGED <<users, images, now, destroyed, shown>>

\* a login that starts the session afresh
LoginFresh(s, user) ==
    LET r == reqs[s]
        sess == [NewSession EXCEPT !.user = user]
    IN
    /\ Finish(s, r, sess, Redirect("/home"))
    /\ destroyed' = IF ShouldSave(r, sess) THEN destroyed \ {SaveSid(r)}
                    ELSE destroyed
    /\ shown' = IF ShouldSave(r, sess)
                THEN [shown EXCEPT ![SaveSid(r)] = Undefined]
                ELSE shown

\* req.session.user = { id, username }; res.redirect("/home")
LoginDone(s, user) ==
    LET r == reqs[s]
        sess == [r.sess EXCEPT !.user = user]
    IN
    /\ Finish(s, r, sess, Redirect("/home"))
    /\ destroyed' = IF ShouldSave(r, sess) THEN destroyed \ {SaveSid(r)}
                    ELSE destroyed
    /\ shown' = IF ShouldSave(r, sess)
                THEN [shown EXCEPT ![SaveSid(r)] = Undefined]
                ELSE shown

\* await User.findOne({ username }) returns a document or null
LoginFindOne(s) ==
    LET r == reqs[s] IN
    /\ r.pc = "findOne"
    /\ Alive /\ StoreOpen
    /\ UNCHANGED proc
    /\ IF FindUser(r.username) # {}
       THEN \E id \in FindUser(r.username) : LoginDone(s, users[id])
       ELSE /\ reqs' = [reqs EXCEPT ![s].pc = "create"]
            /\ UNCHANGED <<sessions, nextSid, last, destroyed, shown>>
    /\ UNCHANGED <<users, images, now, nreq>>

\* await User.create({ username }) returns the new document
LoginCreate(s) ==
    LET r == reqs[s]
        user == [id |-> Len(users) + 1, username |-> r.username]
    IN
    /\ r.pc = "create"
    /\ Alive /\ StoreOpen
    /\ UNCHANGED proc
    /\ ~DuplicateKey(r.username)
    /\ users' = Append(users, user)
    /\ LoginDone(s, user)
    /\ UNCHANGED <<images, now, nreq>>

\* a handler that fills req.session.user before the store call throws
LoginFailedPartial(s) ==
    LET r == reqs[s]
        sess == [r.sess EXCEPT !.user = [id |-> 0, username |-> r.username]]
    IN
    /\ r.pc \in {"findOne", "create"}
    /\ Alive
    /\ UNCHANGED proc
    /\ Finish(s, r, sess,
              Render("login", Undefined, "Something went wrong. Try again.", <<>>))
    /\ UNCHANGED <<users, images, now, nreq, destroyed, shown>>

\* the catch block of router.post("/login"): findOne or create threw (the
\* store failed, or create met the unique index)
LoginFailed(s) ==
    LET r == reqs[s] IN
    /\ r.pc \in {"findOne", "create"}
    /\ Alive
    /\ UNCHANGED proc
    /\ Finish(s, r, r.sess,
              Render("login", Undefined, "Something went wrong. Try again.", <<>>))
    /\ UNCHANGED <<users, images, now, nreq, destroyed, shown>>

\* router.post("/logout"): req.session.destroy removes the session from
\* the store and from the request; the callback runs later
PostLogout(s) ==
    /\ Accept(s)
    /\ \E cookie \in Cookies :
        LET r == Request("POST /logout", cookie, NoBody) IN
        /\ sessions' = [sid \in DOMAIN sessions \ {r.sid} |-> sessions[sid]]
        /\ reqs' = [reqs EXCEPT ![s] = [r EXCEPT !.pc = "destroyed"]]
        /\ shown' = [sid \in Sids |->
                        IF sid = r.sid THEN Undefined ELSE shown[sid]]
    /\ UNCHANGED <<users, images, nextSid, last, now, destroyed>>

\* the destroy callback: res.redirect("/login"); no session to save
LogoutDone(s) ==
    LET r == reqs[s] IN
    /\ r.pc = "destroyed"
    /\ Alive
    /\ UNCHANGED proc
    /\ reqs' = [reqs EXCEPT ![s] = Idle]
    /\ last' = [route |-> r.route, sid |-> r.cookie, body |-> r.body,
                user |-> r.sess.user, afterLogout |-> r.afterLogout,
                resp |-> Redirect("/login")]
    /\ destroyed' = IF r.cookie \in DOMAIN sessions \/ r.cookie = 0
                    THEN destroyed
                    ELSE destroyed \cup {r.cookie}
    /\ UNCHANGED <<users, images, sessions, nextSid, now, nreq, shown>>

\* requireLogin found no user: res.redirect("/login"), the handler is skipped
GateRedirect(s, r) ==
    /\ Finish(s, r, r.sess, Redirect("/login"))
    /\ UNCHANGED <<users, images, now, destroyed, shown>>

\* router.get("/home", requireLogin, ...)
GetHome(s) ==
    /\ Accept(s)
    /\ \E cookie \in Cookies :
        LET r == Request("GET /home", cookie, NoBody) IN
        IF ~requireLogin(r.sess)
        THEN GateRedirect(s, r)
        ELSE /\ Finish(s, r, r.sess,
                       Render("home", HomeImage(r.sess), Undefined, <<>>))
             /\ UNCHANGED <<users, images, now, destroyed, shown>>

\* router.get("/random", requireLogin, ...), up to await fetch(...)
GetRandom(s) ==
    /\ Accept(s)
    /\ \E cookie \in Cookies :
        LET r == Request("GET /random", cookie, NoBody) IN
        IF ~requireLogin(r.sess)
        THEN GateRedirect(s, r)
        ELSE /\ reqs' = [reqs EXCEPT ![s] = [r EXCEPT !.pc = "fetch"]]
             /\ UNCHANGED <<users, images, sessions, nextSid, last, now,
                            destroyed, shown>>

\* await fetch(...) returns a response whose ok flag is set
RandomFetched(s) ==
    /\ reqs[s].pc = "fetch"
    /\ Alive
    /\ UNCHANGED proc
    /\ reqs' = [reqs EXCEPT ![s].pc = "json"]
    /\ UNCHANGED <<users, images, sessions, nextSid, last, now, nreq,
                   destroyed, shown>>

\* data.message of the object await response.json() returns: a URL, or
\* undefined when the object has no message field
Messages == Urls \cup {Undefined}

\* await response.json() returns; req.session.currentImage = data.message
RandomParsed(s) ==
    LET r == reqs[s] IN
    /\ r.pc = "json"
    /\ Alive
    /\ UNCHANGED proc
    /\ \E imageUrl \in Messages :
        /\ Finish(s, r, [r.sess EXCEPT !.currentImage = imageUrl],
                  Render("home", imageUrl, Undefined, <<>>))
        /\ shown' = IF imageUrl \in Urls /\ r.sid \in Sids
                    THEN [shown EXCEPT ![r.sid] = imageUrl]
                    ELSE shown
    /\ UNCHANGED <<users, images, now, nreq, destroyed>>

\* the catch block of router.get("/random"): fetch rejected, the response
\* was not ok, or response.json() rejected (the body is not JSON)
RandomFailed(s) ==
    LET r == reqs[s] IN
    /\ r.pc \in {"fetch", "json"}
    /\ Alive
    /\ UNCHANGED proc
    /\ Finish(s, r, r.sess,
              Render("home", Null, "Could not load image. Please try again.", <<>>))
    /\ UNCHANGED <<users, images, now, nreq, destroyed, shown>>

\* router.post("/save", requireLogin, ...), up to await Image.create(...):
\* the document is built, with its savedAt default, before the insert
PostSave(s) ==
    /\ Accept(s)
    /\ \E cookie \in Cookies, body \in Bodies("POST /save") :
        LET r == Request("POST /save", cookie, body)
            imageUrl == ResolveImageUrl(body.imageUrl, r.sess)
        IN
        IF ~requireLogin(r.sess)
        THEN GateRedirect(s, r)
        ELSE IF Falsy(imageUrl)
        THEN /\ Finish(s, r, r.sess, Redirect("/home"))
             /\ UNCHANGED <<users, images, now, destroyed, shown>>
        ELSE /\ Len(images) + Cardinality(InFlight("POST /save")) < MaxImages
             /\ reqs' = [reqs EXCEPT ![s] =
                            [r EXCEPT !.pc = "insert",
                                      !.doc = [user |-> r.sess.user.id,
                                               imageUrl |-> imageUrl,
                                               savedAt |-> now]]]
             /\ UNCHANGED <<users, images, sessions, nextSid, last, now,
                            destroyed, shown>>

\* an insert that replaces the owner's earlier documents
SaveUpserted(s) ==
    LET r == reqs[s] IN
    /\ r.pc = "insert"
    /\ Alive /\ StoreOpen
    /\ UNCHANGED proc
    /\ images' = Append(SelectSeq(images, LAMBDA d : d.user # r.doc.user),
                        r.doc)
    /\ Finish(s, r, r.sess, Redirect("/saved"))
    /\ UNCHANGED <<users, now, nreq, destroyed, shown>>

\* await Image.create(...) returns
SaveInserted(s) ==
    LET r == reqs[s] IN
    /\ r.pc = "insert"
    /\ Alive /\ StoreOpen
    /\ UNCHANGED proc
    /\ images' = Append(images, r.doc)
    /\ Finish(s, r, r.sess, Redirect("/saved"))
    /\ UNCHANGED <<users, now, nreq, destroyed, shown>>

\* a failed insert that leaves the document in the collection
SaveFailedWritten(s) ==
    LET r == reqs[s] IN
    /\ r.pc = "insert"
    /\ Alive
    /\ UNCHANGED proc
    /\ images' = Append(images, r.doc)
    /\ Finish(s, r, r.sess, Redirect("/home"))
    /\ UNCHANGED <<users, now, nreq, destroyed, shown>>

\* the catch block of router.post("/save"): Image.create threw
SaveFailed(s) ==
    LET r == reqs[s] IN
    /\ r.pc = "insert"
    /\ Alive
    /\ UNCHANGED proc
    /\ Finish(s, r, r.sess, Redirect("/home"))
    /\ UNCHANGED <<users, images, now, nreq, destroyed, shown>>

\* router.get("/saved", requireLogin, ...), up to await Image.find(...)
GetSaved(s) ==
    /\ Accept(s)
    /\ \E cookie \in Cookies :
        LET r == Request("GET /saved", cookie, NoBody) IN
        IF ~requireLogin(r.sess)
        THEN GateRedirect(s, r)
        ELSE /\ reqs' = [reqs EXCEPT ![s] = [r EXCEPT !.pc = "find"]]
             /\ UNCHANGED <<users, images, sessions, nextSid, last, now,
                            destroyed, shown>>

\* await Image.find({ user }).sort({ savedAt: -1 }) returns
SavedFound(s) ==
    LET r == reqs[s] IN
    /\ r.pc = "find"
    /\ Alive /\ StoreOpen
    /\ UNCHANGED proc
    /\ \E listing \in SortBySavedAt(FindImages(r.sess.user.id)) :
           Finish(s, r, r.sess, Render("saved", Undefined, Undefined, listing))
    /\ UNCHANGED <<users, images, now, nreq, destroyed, shown>>

\* the catch block of router.get("/saved"): the query threw
SavedFailed(s) ==
    LET r == reqs[s] IN
    /\ r.pc = "find"
    /\ Alive
    /\ UNCHANGED proc
    /\ Finish(s, r, r.sess, Render("saved", Undefined, Undefined, <<>>))
    /\ UNCHANGED <<users, images, now, nreq, destroyed, shown>>

\* time passes between two reads of Date.now().  Only the savedAt default
\* reads the clock, so the clock moves on only from a value a document holds.
Tick ==
    /\ Alive
    /\ now < MaxClock
    /\ \/ \E i \in 1..Len(images) : images[i].savedAt = now
       \/ \E s \in Slots : reqs[s].pc = "insert" /\ reqs[s].doc.savedAt = now
    /\ now' = now + 1
    /\ UNCHANGED <<users, images, sessions, nextSid, reqs, last, nreq,
                   destroyed, shown, proc>>

Next ==
    \/ \E s \in Slots : Root(s)
    \/ \E s \in Slots : GetLogin(s)
    \/ \E s \in Slots : PostLogin(s)
    \/ \E s \in Slots : LoginFindOne(s)
    \/ \E s \in Slots : LoginCreate(s)
    \/ \E s \in Slots : LoginFailed(s)
    \/ \E s \in Slots : PostLogout(s)
    \/ \E s \in Slots : LogoutDone(s)
    \/ \E s \in Slots : GetHome(s)
    \/ \E s \in Slots : GetRandom(s)
    \/ \E s \in Slots : RandomFetched(s)
    \/ \E s \in Slots : RandomParsed(s)
    \/ \E s \in Slots : RandomFailed(s)
    \/ \E s \in Slots : PostSave(s)
    \/ \E s \in Slots : SaveInserted(s)
    \/ \E s \in Slots : SaveFailed(s)
    \/ \E s \in Slots : GetSaved(s)
    \/ \E s \in Slots : SavedFound(s)
    \/ \E s \in Slots : SavedFailed(s)
    \/ Tick

Spec == Init /\ [][Next]_vars

\* ------------------------------------------------- process lifecycle
\* what no lifecycle step touches
Data == <<users, images, sessions, nextSid, reqs, last, now, nreq, destroyed,
          shown>>

\* process.exit(code)
Exit(p, code) == [p EXCEPT !.phase = "exited", !.exitCode = code]

\* server.js is loaded: without a connection string the process exits at
\* once; with one, mongoose.connect and app.listen are both started and
\* the event loop takes over
Boot ==
    /\ proc.phase = "load"
    /\ proc' = IF ~proc.hasUri
               THEN Exit(proc, 1)
               ELSE [proc EXCEPT !.phase = "up", !.db = "connecting",
                                 !.listener = "binding"]
    /\ UNCHANGED Data

\* the callback of app.listen: log the address, openCli()
Listen ==
    /\ Alive
    /\ proc.listener = "binding"
    /\ proc' = [proc EXCEPT !.listener = "listening", !.cli = "prompt",
                            !.out = [msg |-> "Web server started",
                                     arg |-> <<>>, prompt |-> TRUE]]
    /\ UNCHANGED Data

\* the port cannot be bound: the listener's 'error' event has no handler
ListenFailed ==
    /\ Alive
    /\ proc.listener = "binding"
    /\ proc' = Exit([proc EXCEPT !.listener = "none"], 1)
    /\ UNCHANGED Data

\* mongoose.connect(uri).then(...): the connection opens; a close asked for
\* while connecting starts now
Connected ==
    /\ Alive
    /\ proc.db \in {"connecting", "closeWhenOpen"}
    /\ proc' = [proc EXCEPT
                  !.db = IF proc.db = "connecting" THEN "open" ELSE "closing"]
    /\ UNCHANGED Data

\* a connection failure that leaves the process running
ConnectFailedQuietly ==
    /\ Alive
    /\ proc.db \in {"connecting", "closeWhenOpen"}
    /\ proc' = [proc EXCEPT !.db = "failed"]
    /\ UNCHANGED Data

\* mongoose.connect(uri).catch(...): log, process.exit(1)
ConnectFailed ==
    /\ Alive
    /\ proc.db \in {"connecting", "closeWhenOpen"}
    /\ proc' = Exit([proc EXCEPT !.db = "failed"], 1)
    /\ UNCHANGED Data

\* the lines the operator types
Lines ==
    { <<>>, <<" ">>, <<"x">>, <<" ", "X">>, <<"s", "t", "o", "p">>,
      <<" ", "S", "t", "O", "P", " ">> }

\* String.prototype.toLowerCase, on the letters of Lines
Lower(c) ==
    CASE c = "S" -> "s"
      [] c = "T" -> "t"
      [] c = "O" -> "o"
      [] c = "P" -> "p"
      [] c = "X" -> "x"
      [] OTHER -> c

ToLowerCase(str) == [i \in 1..Len(str) |-> Lower(str[i])]

\* a command taken as typed
AsTyped(line) == line

\* String(line || "").trim().toLowerCase()
Command(line) == ToLowerCase(Trim(line))

Stop == <<"s", "t", "o", "p">>

\* rl.on("line", ...)
OnLine(line) ==
    /\ Alive
    /\ proc.cli = "prompt"
    /\ LET cmd == Command(line) IN
       proc' =
         IF cmd = Stop
         THEN [proc EXCEPT !.line = line,
                           !.out = [msg |-> "Shutting down the server",
                                    arg |-> <<>>, prompt |-> FALSE],
                           !.cli = "closed",
                           !.listener = "draining"]
         ELSE IF Len(cmd) > 0
         THEN [proc EXCEPT !.line = line,
                           !.out = [msg |-> "Invalid command", arg |-> cmd,
                                    prompt |-> TRUE]]
         ELSE [proc EXCEPT !.line = line,
                           !.out = [msg |-> "none", arg |-> <<>>,
                                    prompt |-> TRUE]]
    /\ UNCHANGED Data

\* the callback of server.close: every connection has ended;
\* mongoose.connection.close(false, ...) is called
ServerClosed ==
    /\ Alive
    /\ proc.listener = "draining"
    /\ \A s \in Slots : reqs[s].pc = "idle"
    /\ proc' = [proc EXCEPT
                  !.listener = "closed",
                  !.db = IF proc.db = "open" THEN "closing"
                         ELSE "closeWhenOpen"]
    /\ UNCHANGED Data

\* the callback of mongoose.connection.close: process.exit(0)
StoreClosed ==
    /\ Alive
    /\ proc.db = "closing"
    /\ proc' = Exit([proc EXCEPT !.db = "closed"], 0)
    /\ UNCHANGED Data

LifeNext ==
    \/ Next
    \/ Boot
    \/ Listen
    \/ ListenFailed
    \/ Connected
    \/ ConnectFailed
    \/ \E line \in Lines : OnLine(line)
    \/ ServerClosed
    \/ StoreClosed

Life == LifeInit /\ [][LifeNext]_vars


\* =============================================================== claims
\* ------------------------------------------------ reading a step
\* this step put a new request into slot s, where it now awaits something
ArrivedIn(s) == reqs[s].pc = "idle" /\ reqs'[s].pc # "idle"

\* this step sent the response of the request that was in slot s
Completes(s) == reqs[s].pc # "idle" /\ reqs'[s].pc = "idle"

\* this step received a request and answered it at once; last' is the answer
Immediate == nreq' # nreq /\ reqs' = reqs

\* what the session store holds for a cookie
StoredUser(cookie) ==
    IF cookie \in DOMAIN sessions THEN sessions[cookie].user ELSE NoUser

StoredImage(cookie) ==
    IF cookie \in DOMAIN sessions THEN sessions[cookie].currentImage
    ELSE Undefined

\* as a user reads them
NoUrl(v) == v \notin Urls
NoText(v) == v \in {Undefined, Null, ""}
IsChar(c) == c # " "
NoSpaces(str) == SelectSeq(str, IsChar)
Blank(body) ==
    ~body.hasUsername \/ \A i \in 1..Len(body.username) : body.username[i] = " "
UsersNamed(us, name) == {i \in 1..Len(us) : us[i].username = name}
Count(seq, d) == Cardinality({i \in 1..Len(seq) : seq[i] = d})
Range(seq) == {seq[i] : i \in 1..Len(seq)}

\* C1: a request to a protected route whose session holds no user is
\* answered at once with a redirect to /login and touches neither the
\* collections nor the session store nor the upstream provider; one whose
\* session holds a user is never redirected to /login and reaches its
\* handler (it awaits the handler's I/O or gets the handler's answer).
C1_LoginGate ==
    [][ /\ \A s \in Slots :
             (ArrivedIn(s) /\ reqs'[s].route \in Protected) =>
                 /\ StoredUser(reqs'[s].cookie) # NoUser
                 /\ reqs'[s].pc \in {"fetch", "insert", "find"}
        /\ (Immediate /\ last'.route \in Protected) =>
             IF StoredUser(last'.sid) = NoUser
             THEN /\ last'.resp = Redirect("/login")
                  /\ UNCHANGED <<users, images, sessions, nextSid>>
             ELSE /\ last'.resp # Redirect("/login")
                  /\ \/ last'.route = "GET /home" /\ last'.resp.target = "home"
                     \/ last'.route = "POST /save" /\ last'.resp = Redirect("/home")
        /\ \A s \in Slots :
             (Completes(s) /\ reqs[s].route \in Protected) =>
                 last'.resp # Redirect("/login")
      ]_vars

\* a logged-out cookie was just turned away while another request's
\* handler is running
C1_Witness ==
    /\ last.route \in Protected
    /\ last.sid # 0
    /\ last.user = NoUser
    /\ last.resp = Redirect("/login")
    /\ \E s \in Slots : reqs[s].route \in Protected /\ reqs[s].pc = "find"

\* C2: once a POST /logout of a cookie has completed, every later request
\* to a protected route with that cookie is redirected to /login, until a
\* new login succeeds on that cookie.
C2_LogoutSticks ==
    /\ (last.route \in Protected /\ last.afterLogout) =>
           last.resp = Redirect("/login")
    /\ \A s \in Slots :
           (reqs[s].pc # "idle" /\ reqs[s].route \in Protected) =>
               ~reqs[s].afterLogout

\* C3: no two User documents share a username; a document is only ever
\* added by a login whose trimmed username has no document, and then exactly
\* one; after a successful login exactly one document has that username,
\* and none was added if one existed.
C3_OneUserPerUsername ==
    [][ /\ \A i, j \in 1..Len(users') :
             i # j => users'[i].username # users'[j].username
        /\ users' # users =>
             \E s \in Slots :
                 /\ Completes(s) /\ reqs[s].route = "POST /login"
                 /\ LET name == NoSpaces(reqs[s].body.username) IN
                    /\ UsersNamed(users, name) = {}
                    /\ users' = Append(users, [id |-> Len(users) + 1,
                                               username |-> name])
        /\ \A s \in Slots :
             (/\ Completes(s) /\ reqs[s].route = "POST /login"
              /\ last'.resp = Redirect("/home")) =>
                 LET name == NoSpaces(reqs[s].body.username) IN
                 /\ Cardinality(UsersNamed(users', name)) = 1
                 /\ UsersNamed(users, name) # {} => users' = users
      ]_vars

\* a second login as "a", typed with spaces around it, on a session that
\* already belongs to "a"
C3_Witness ==
    /\ last.route = "POST /login"
    /\ last.resp = Redirect("/home")
    /\ last.user.username = <<"a">>
    /\ last.body.username = <<" ", "a", " ">>
    /\ Cardinality(UsersNamed(users, <<"a">>)) = 1

\* C4: a POST /login whose username is missing, empty or all whitespace is
\* answered at once with the login view and an error message, and changes
\* neither the User collection nor the session store.
C4_BlankLoginNoChange ==
    [][ /\ \A s \in Slots :
             (ArrivedIn(s) /\ reqs'[s].route = "POST /login") =>
                 ~Blank(reqs'[s].body)
        /\ (Immediate /\ last'.route = "POST /login" /\ Blank(last'.body)) =>
             /\ last'.resp.kind = "render"
             /\ last'.resp.target = "login"
             /\ ~NoText(last'.resp.error)
             /\ UNCHANGED <<users, images, sessions, nextSid>>
      ]_vars

\* a whitespace-only login on a session that holds a user
C4_Witness ==
    /\ last.route = "POST /login"
    /\ last.body.hasUsername /\ last.body.username = <<" ">>
    /\ last.user # NoUser
    /\ last.resp.target = "login"

\* C5: a POST /save of a logged-in session with no form URL (absent or
\* empty) and no URL in the session is answered at once with a redirect to
\* /home and writes nothing.
C5_SaveNothingToSave ==
    [][ /\ \A s \in Slots :
             (ArrivedIn(s) /\ reqs'[s].route = "POST /save") =>
                 ~(/\ NoUrl(reqs'[s].body.imageUrl)
                   /\ NoUrl(StoredImage(reqs'[s].cookie)))
        /\ (/\ Immediate /\ last'.route = "POST /save"
            /\ StoredUser(last'.sid) # NoUser
            /\ NoUrl(last'.body.imageUrl)
            /\ NoUrl(StoredImage(last'.sid))) =>
             /\ last'.resp = Redirect("/home")
             /\ UNCHANGED <<users, images, sessions, nextSid>>
      ]_vars

\* a logged-in session in which nothing was ever fetched saved with an
\* empty form field
C5_Witness ==
    /\ last.route = "POST /save"
    /\ last.user # NoUser
    /\ last.body.imageUrl = ""
    /\ last.resp = Redirect("/home")
    /\ last.sid \in DOMAIN sessions
    /\ sessions[last.sid].currentImage = Undefined
    /\ shown[last.sid] = Undefined

\* C6: a POST /save of a logged-in session without a form URL, made after
\* a successful GET /random of that session, builds one Image document of
\* the session user with the URL that GET /random last answered, and a
\* successful insert adds exactly that document; with a form URL the
\* document carries the form's URL.
C6_SaveUsesLastFetched ==
    [][ /\ (/\ Immediate /\ last'.route = "POST /save"
            /\ StoredUser(last'.sid) # NoUser
            /\ NoUrl(last'.body.imageUrl)) =>
                NoUrl(shown[last'.sid])
        /\ \A s \in Slots :
             (ArrivedIn(s) /\ reqs'[s].route = "POST /save"
              /\ reqs'[s].cookie \in Sids) =>
                 LET r == reqs'[s] IN
                 /\ r.doc.user = StoredUser(r.cookie).id
                 /\ ~NoUrl(r.body.imageUrl) => r.doc.imageUrl = r.body.imageUrl
                 /\ (NoUrl(r.body.imageUrl) /\ ~NoUrl(shown[r.cookie])) =>
                        r.doc.imageUrl = shown[r.cookie]
        /\ \A s \in Slots :
             (/\ Completes(s) /\ reqs[s].route = "POST /save"
              /\ last'.resp = Redirect("/saved")) =>
                 images' = Append(images, reqs[s].doc)
      ]_vars

\* C7: when the upstream call of GET /random fails (the response shows no
\* image), the session store is as it was before the response.
C7_FailedFetchKeepsSession ==
    [][ \A s \in Slots :
          (/\ Completes(s) /\ reqs[s].route = "GET /random"
           /\ NoUrl(last'.resp.currentImage)) =>
              sessions' = sessions
      ]_vars

\* C8: every GET /random of a logged-in session that obtains no image URL
\* answers with the home view, no image and a non-empty error message.
C8_FailedFetchShowsError ==
    (/\ last.route = "GET /random" /\ last.user # NoUser
     /\ NoUrl(last.resp.currentImage)) =>
        /\ last.resp.kind = "render"
        /\ last.resp.target = "home"
        /\ ~NoText(last.resp.error)

\* C9: the list GET /saved renders is in descending savedAt order: a
\* document saved later than another one comes before it.
C9_SavedDescending ==
    (last.route = "GET /saved" /\ last.resp.kind = "render") =>
        \A i, j \in 1..Len(last.resp.images) :
            last.resp.images[i].savedAt > last.resp.images[j].savedAt => i < j

\* three documents saved at t1 < t2 < t3 are listed as t3, t2, t1
C9_Witness ==
    /\ last.route = "GET /saved"
    /\ Len(last.resp.images) = 3
    /\ last.resp.images[1].savedAt > last.resp.images[2].savedAt
    /\ last.resp.images[2].savedAt > last.resp.images[3].savedAt

\* C10: when the query of GET /saved succeeds, the list holds each Image
\* document of the request's session user, once, and no other document.
C10_SavedOwnedOnly ==
    [][ \A s \in Slots :
          SavedFound(s) =>
              \A d \in Range(images) \cup Range(last'.resp.images) :
                  Count(last'.resp.images, d) =
                      IF d.user = reqs[s].sess.user.id
                      THEN Count(images, d) ELSE 0
      ]_vars

\* a user's own document is listed while another user's document exists
C10_Witness ==
    /\ last.route = "GET /saved"
    /\ Len(last.resp.images) >= 1
    /\ \E i \in 1..Len(images) : images[i].user # last.user.id

\* ------------------------------------------------------------ shutdown
\* the command `stop` has been read (only then is the prompt closed)
StopRead == proc.cli = "closed"

Exited == proc.phase = "exited"

\* C11: the store connection is closed only once the listener has stopped
\* accepting, and a process that was told to stop exits only after the
\* listener's close and the connection's close have both completed.
C11_ShutdownOrder ==
    /\ proc.db \in {"closeWhenOpen", "closing", "closed"} =>
           proc.listener = "closed"
    /\ (StopRead /\ Exited) =>
           proc.listener = "closed" /\ proc.db = "closed"

\* C12: once `stop` has been read the listener accepts nothing any more,
\* and when the process has exited it has exited with code 0.
C12_StopExitsWithSuccess ==
    /\ StopRead => ~Accepting
    /\ (StopRead /\ Exited) => proc.exitCode = 0

\* ------------------------------------------------------- store failures
LoginError == Render("login", Undefined, "Something went wrong. Try again.", <<>>)

\* C13: when findOne or create of POST /login throws, the response is the
\* login view with the generic error, and neither the session store (so no
\* session's user) nor the User collection changes; a POST /login that
\* waited for the store ends with that view or with the redirect to /home,
\* and only in the second case with a changed session.
C13_LoginFailureNoSession ==
    [][ \A s \in Slots :
          /\ LoginFailed(s) =>
                 /\ last'.route = "POST /login"
                 /\ last'.resp = LoginError
                 /\ sessions' = sessions
                 /\ nextSid' = nextSid
                 /\ users' = users
          /\ (Completes(s) /\ reqs[s].route = "POST /login") =>
                 \/ last'.resp = Redirect("/home")
                 \/ last'.resp = LoginError /\ sessions' = sessions
      ]_vars

\* a login as another user on a logged-in session was answered with the
\* generic error, and the session still holds the user it held
C13_Witness ==
    /\ last.route = "POST /login"
    /\ last.resp = LoginError
    /\ last.user # NoUser
    /\ last.user.username # LoginUsername(last.body)
    /\ StoredUser(last.sid) = last.user

\* C14: when Image.create of POST /save throws, the Image collection is
\* unchanged and the response is a redirect to /home; when it returns, the
\* collection is the old one with exactly one document appended and the
\* response is a redirect to /saved; a POST /save that reached the store is
\* answered by one of these two redirects, never by anything else.
C14_SaveOutcomes ==
    [][ \A s \in Slots :
          /\ SaveFailed(s) =>
                 images' = images /\ last'.resp = Redirect("/home")
          /\ SaveInserted(s) =>
                 /\ Len(images') = Len(images) + 1
                 /\ SubSeq(images', 1, Len(images)) = images
                 /\ last'.resp = Redirect("/saved")
          /\ (Completes(s) /\ reqs[s].route = "POST /save") =>
                 /\ last'.route = "POST /save"
                 /\ \/ last'.resp = Redirect("/home") /\ images' = images
                    \/ /\ last'.resp = Redirect("/saved")
                       /\ images' = Append(images, reqs[s].doc)
      ]_vars

\* a logged-in save of a posted URL was answered with the redirect to /home
\* (its insert failed) after another save had added a document
C14_Witness ==
    /\ last.route = "POST /save"
    /\ last.user # NoUser
    /\ last.body.imageUrl \in Urls
    /\ last.resp = Redirect("/home")
    /\ Len(images) = 1

\* ------------------------------------------------------ command line
\* the lines of Lines that spell stop
StopLines == { <<"s", "t", "o", "p">>, <<" ", "S", "t", "O", "P", " ">> }

\* the line holds something besides spaces
HasText(line) == \E i \in 1..Len(line) : line[i] # " "

\* C15: a line other than stop, read while the prompt is open, changes
\* nothing of the process but the prompt: the listener, the store
\* connection and the exit state stay as they are, the prompt is shown
\* again, and "Invalid command" is logged exactly when the line holds
\* something besides spaces.
C15_OtherLinesKeepRunning ==
    [][ \A line \in Lines \ StopLines :
          OnLine(line) =>
              /\ proc'.phase = proc.phase
              /\ proc'.listener = proc.listener
              /\ proc'.db = proc.db
              /\ proc'.exitCode = proc.exitCode
              /\ proc'.cli = "prompt"
              /\ proc'.out.prompt
              /\ proc'.out.msg =
                     IF HasText(line) THEN "Invalid command" ELSE "none"
              /\ UNCHANGED Data
      ]_vars

\* " X" was reported as the invalid command x and the server still accepts
\* requests, one of them in flight
C15_Witness ==
    /\ proc.line = <<" ", "X">>
    /\ proc.out = [msg |-> "Invalid command", arg |-> <<"x">>, prompt |-> TRUE]
    /\ Accepting
    /\ \E s \in Slots : reqs[s].pc # "idle"

\* ------------------------------------------------------ concurrent logins
\* C16: no two User documents share a username, whatever logins are
\* suspended between findOne and create; a login whose create comes after
\* another login created the same username is answered with the login view
\* and the generic error, and adds neither a document nor a session.
C16_ConcurrentFirstLogins ==
    [][ /\ \A i, j \in 1..Len(users') :
             users'[i].username = users'[j].username => i = j
        /\ \A s \in Slots :
             ( /\ reqs[s].pc = "create"
               /\ UsersNamed(users, reqs[s].username) # {}
               /\ Completes(s) ) =>
                 /\ last'.resp = LoginError
                 /\ users' = users
                 /\ sessions' = sessions
                 /\ nextSid' = nextSid
      ]_vars

\* two logins looked the same unseen username up; one has created it and is
\* logged in, the other, which brought no session, is about to create it
C16_Witness ==
    /\ Len(users) = 1
    /\ DOMAIN sessions = {1}
    /\ sessions[1].user = users[1]
    /\ \E s \in Slots :
          /\ reqs[s].pc = "create"
          /\ reqs[s].sid = 0
          /\ reqs[s].username = users[1].username

\* ------------------------------------------------------------ documents
UserIds == {users[i].id : i \in 1..Len(users)}

\* C17: the owner of every Image document, stored or about to be inserted,
\* is the id of a User document.
C17_OwnerExists ==
    /\ \A i \in 1..Len(images) : images[i].user \in UserIds
    /\ \A s \in Slots : reqs[s].pc = "insert" => reqs[s].doc.user \in UserIds

\* two users own a document each
C17_Witness ==
    /\ Len(users) = 2
    /\ \E i, j \in 1..Len(images) :
          images[i].user = users[1].id /\ images[j].user = users[2].id

\* seq is the beginning of seq2
Prefix(seq, seq2) ==
    Len(seq) <= Len(seq2) /\ SubSeq(seq2, 1, Len(seq)) = seq

\* C18: no step removes or changes a User or Image document; a step that
\* changes the User collection is the create of a POST /login and appends
\* its one document, a step that changes the Image collection is the insert
\* of a POST /save and appends its one document; no step of the process
\* lifecycle (start, command line, shutdown) changes either collection.
C18_StoreOnlyGrows ==
    [][ /\ Prefix(users, users')
        /\ Prefix(images, images')
        /\ users' # users =>
             \E s \in Slots :
                 /\ reqs[s].route = "POST /login"
                 /\ reqs[s].pc = "create"
                 /\ Completes(s)
                 /\ users' = Append(users, [id |-> Len(users) + 1,
                                            username |-> reqs[s].username])
                 /\ images' = images
        /\ images' # images =>
             \E s \in Slots :
                 /\ reqs[s].route = "POST /save"
                 /\ reqs[s].pc = "insert"
                 /\ Completes(s)
                 /\ images' = Append(images, reqs[s].doc)
                 /\ users' = users
        /\ proc' # proc => users' = users /\ images' = images
      ]_vars

\* the process was stopped and has exited with two documents of one user and
\* the user's document in the store
C18_Witness ==
    /\ Exited
    /\ proc.exitCode = 0
    /\ Len(users) = 1
    /\ Len(images) = 2
    /\ images[1].user = images[2].user

\* ------------------------------------------------- login on a session
\* C19: a POST /login that succeeds on an existing session as another user
\* than the session's stores that session with the user replaced by the
\* document of the posted username and with the currentImage the request's
\* session held (which is the stored one unless another request wrote the
\* session meanwhile), and touches no other session; a
\* POST /save without a form URL then builds its document from the stored
\* user and the stored currentImage.
C19_LoginKeepsImage ==
    [][ \A s \in Slots :
          /\ ( /\ Completes(s)
               /\ reqs[s].route = "POST /login"
               /\ reqs[s].sid # 0
               /\ reqs[s].sess.user.username # reqs[s].username
               /\ last'.resp = Redirect("/home") ) =>
                 LET sid == reqs[s].sid
                     after == IF sid \in DOMAIN sessions' THEN sessions'[sid]
                              ELSE NewSession
                 IN
                 /\ after.user.username = reqs[s].username
                 /\ after.user \in Range(users')
                 /\ after.currentImage = reqs[s].sess.currentImage
                 /\ (sid \in DOMAIN sessions /\ sessions[sid] = reqs[s].orig) =>
                        after.currentImage = sessions[sid].currentImage
                 /\ \A other \in DOMAIN sessions' \ {sid} :
                        other \in DOMAIN sessions
                            /\ sessions'[other] = sessions[other]
          /\ ( /\ ArrivedIn(s)
               /\ reqs'[s].route = "POST /save"
               /\ reqs'[s].pc = "insert"
               /\ Falsy(reqs'[s].body.imageUrl) ) =>
                 /\ reqs'[s].doc.user = StoredUser(reqs'[s].cookie).id
                 /\ reqs'[s].doc.imageUrl = StoredImage(reqs'[s].cookie)
      ]_vars

\* a session fetched an image as the first user, logged in as the second
\* user and fetched nothing since; its save without a form URL stored that
\* image for the second user
C19_Witness ==
    /\ last.route = "POST /save"
    /\ last.resp = Redirect("/saved")
    /\ Falsy(last.body.imageUrl)
    /\ Len(users) = 2
    /\ last.user = users[2]
    /\ shown[last.sid] = Undefined
    /\ Len(images) = 1
    /\ images[1].user = users[2].id
    /\ images[1].imageUrl \in Urls
    /\ nreq = 4

\* -------------------------------------------------------------- startup
\* C20: loaded without a connection string, the process exits with code 1
\* and has started no listener and received no request; when the initial
\* connection fails the process exits with code 1 in the same step; and a
\* process whose connection has failed takes no step: it receives no
\* request and completes none.
C20_StartupFailsClosed ==
    [][ /\ (proc.phase = "load" /\ ~proc.hasUri) =>
               /\ proc'.phase = "exited"
               /\ proc'.exitCode = 1
               /\ proc'.listener = "none"
               /\ proc'.db = "none"
               /\ nreq' = 0
        /\ proc'.db = "failed" =>
               proc'.phase = "exited" /\ proc'.exitCode = 1
        /\ proc.db = "failed" => UNCHANGED Data
      ]_vars

\* the connection failed while the server was listening with a request in
\* flight: the process has exited with code 1, the request unanswered
C20_Witness ==
    /\ proc.db = "failed"
    /\ Exited
    /\ proc.exitCode = 1
    /\ proc.listener = "listening"
    /\ \E s \in Slots : reqs[s].pc = "findOne"

====
